---- MODULE Spec2Model ----
(***************************************************************************)
(* The host client of the anchor race relay (src/mod.ts): the read loop    *)
(* that frames the byte stream on line feeds, packet handling with the     *)
(* participant registry and the corrective SERVER_MESSAGE/RESET sends, and *)
(* the asynchronous writes with their disconnect on failure.               *)
(***************************************************************************)
EXTENDS Integers, Sequences, FiniteSets, TLC

VARIABLES
    id,      \* Client.id, the connection's rid
    data,    \* Client.data, the participant registry: own keys |-> snapshot
    buf,     \* waitForData's local `data`: bytes received and not yet dispatched
    pc,      \* position of waitForData: "read" (awaiting a read) or "done"
    sends,   \* sendPacket calls awaiting their writeAll, oldest first
    closeCalls, \* how many times connection.close() has been called
    last,    \* history: the payloads the step into this state gave to handlePacket
    hist,    \* history: the bytes received and the payloads dispatched
    progress, \* per call of sends: the bytes of its packet the socket has taken
    wire,    \* the bytes written to the socket since its last line feed
    step     \* history: what the step into this state was, which of its payloads
             \* ended in handlePacket's catch, the bytes it wrote to the socket

vars == <<id, data, buf, pc, sends, closeCalls, last, hist, progress, wire, step>>

----------------------------------------------------------------------------
(* Bounds of the model *)

\* sendPacket calls in flight at once
MaxInFlight == 1
\* bytes one read returns (the code's buffer holds 1024)
MaxRead == 3
\* bytes received in all while the stream is recorded
MaxStream == 5
\* sendPacket calls in flight at once where the writes are followed byte by byte
MaxConcurrent == 2
\* close() calls after which the operator types no further command
MaxCloseCalls == 2

----------------------------------------------------------------------------
(* JavaScript values *)

Undefined == [t |-> "undefined"]
Null == [t |-> "null"]
Num(n) == [t |-> "number", v |-> n]
Str(s) == [t |-> "string", v |-> s]
Obj(f) == [t |-> "object", f |-> f]

\* ToBoolean
Truthy(v) == v \notin {Undefined, Null, Num(0), Str("")}

\* v[name] for a value that is not null or undefined: a primitive has no own
\* field, an object has the fields of its map
Field(v, name) ==
    IF v.t = "object" /\ name \in DOMAIN v.f THEN v.f[name] ELSE Undefined

\* reading a property of null or undefined throws a TypeError
Nullish(v) == v \in {Undefined, Null}

\* obj[key] on the registry object
Lookup(reg, key) == IF key \in DOMAIN reg THEN reg[key] ELSE Undefined

\* a store that merges the fields of two maps instead of replacing the value
StoreMerged(reg, key, v) ==
    [k \in DOMAIN reg \cup {key} |->
        IF k # key THEN reg[k]
        ELSE IF key \in DOMAIN reg /\ reg[key].t = "object" /\ v.t = "object"
             THEN Obj([n \in DOMAIN reg[key].f \cup DOMAIN v.f |->
                          IF n \in DOMAIN v.f THEN v.f[n] ELSE reg[key].f[n]])
             ELSE v]

\* obj[key] = v
Store(reg, key, v) == [k \in DOMAIN reg \cup {key} |-> IF k = key THEN v ELSE reg[k]]

\* the rest of a destructured object: { clientId, ...data }
Rest(e) == Obj([k \in DOMAIN e.f \ {"clientId"} |-> e.f[k]])

----------------------------------------------------------------------------
(* Configuration and the packets of the model *)

\* the fileNum of a participant with no save loaded
NoSave == 255

config == [seed |-> "S"]

\* connection rids the session may get
ConnIds == {3}
\* participant ids on the wire
ClientIds == {7, 9}

DataObjects ==
    { Obj([fileNum |-> Num(NoSave), seed |-> Str("T")]),
      Obj([fileNum |-> Num(1), seed |-> Str("S")]),
      Obj([fileNum |-> Num(1), seed |-> Str("T")]),
      Obj([seed |-> Str("T")]) }

\* what the data field of an UPDATE_CLIENT_DATA may hold: a map, a falsy
\* primitive, or nothing
DataValues == DataObjects \cup {Num(0), Undefined}

\* entries of ALL_CLIENT_DATA.clients
Entries ==
    { Obj([clientId |-> c, fileNum |-> Num(NoSave), seed |-> Str("T")]) : c \in ClientIds } \cup
    { Obj([clientId |-> c, fileNum |-> Num(1), seed |-> Str("S")]) : c \in ClientIds }

ClientLists ==
    { <<e>> : e \in Entries } \cup
    { <<e1, e2>> : e1 \in Entries, e2 \in { e \in Entries : e.f.clientId = 9 } }

UpdateClientData(c, d) == [type |-> "UPDATE_CLIENT_DATA", clientId |-> c, data |-> d]
AllClientData(cs) == [type |-> "ALL_CLIENT_DATA", clients |-> cs]
Plain(ty) == [type |-> ty]
ServerMessage(m, target) == [type |-> "SERVER_MESSAGE", message |-> m, targetClientId |-> target]
Reset(target) == [type |-> "RESET", targetClientId |-> target]

OtherTypes == {"RESET", "SERVER_MESSAGE", "DISABLE_ANCHOR", "REQUEST_SAVE_STATE", "PUSH_SAVE_STATE"}

\* a JSON object that has no type field
NoType == [roomId |-> "room"]

\* packetObject.type: undefined when the object has no such field
TypeOf(p) == IF "type" \in DOMAIN p THEN p.type ELSE "undefined"

InboundPackets ==
    { UpdateClientData(c, d) : c \in ClientIds, d \in DataValues } \cup
    { AllClientData(cs) : cs \in ClientLists } \cup
    { Plain(ty) : ty \in OtherTypes } \cup
    { NoType }

\* the session's own first packet
HostUpdate == [type |-> "UPDATE_CLIENT_DATA", roomId |-> "room",
               data |-> Obj([name |-> Str("HOST"), seed |-> Str(config.seed)])]

\* the packet of the operator's reset command
RoomReset == [type |-> "RESET", roomId |-> "room"]

\* a finished continuation: nothing is sent next
NoPacket == [type |-> "none"]

Messages == {"Can't connect with save loaded, resetting", "Wrong seed loaded, resetting"}

\* every packet the session sends
OutboundPackets ==
    {HostUpdate, RoomReset} \cup
    { ServerMessage(m, c) : m \in Messages, c \in ClientIds } \cup
    { Reset(c) : c \in ClientIds }

----------------------------------------------------------------------------
(* The packet codec: JSON text over a two-letter alphabet *)

\* the frame delimiter
LF == 10
\* the bytes packet text is written in
Letters == {97, 98}
Bytes == Letters \cup {LF}

RECURSIVE SetToSeq(_)
SetToSeq(S) ==
    IF S = {} THEN <<>>
    ELSE LET x == CHOOSE y \in S : TRUE IN <<x>> \o SetToSeq(S \ {x})

\* the packets with the shortest texts
ShortPackets ==
    << UpdateClientData(7, Obj([fileNum |-> Num(1), seed |-> Str("T")])),
       UpdateClientData(7, Undefined),
       AllClientData(<<Obj([clientId |-> 7, fileNum |-> Num(NoSave), seed |-> Str("T")])>>),
       UpdateClientData(9, Num(0)),
       NoType >>

PacketTable ==
    ShortPackets \o SetToSeq(InboundPackets \ { ShortPackets[i] : i \in DOMAIN ShortPackets })

\* n written in bijective base 2 with the digits a (1) and b (2)
RECURSIVE Numeral(_)
Numeral(n) ==
    IF n = 0 THEN <<>>
    ELSE LET d == IF n % 2 = 1 THEN 1 ELSE 2
         IN  Append(Numeral((n - d) \div 2), IF d = 1 THEN 97 ELSE 98)

RECURSIVE Value(_)
Value(text) ==
    IF text = <<>> THEN 0
    ELSE 2 * Value(SubSeq(text, 1, Len(text) - 1)) + (IF text[Len(text)] = 97 THEN 1 ELSE 2)

\* JSON.stringify(packet): the text of a packet is its number in the table
Stringify(p) == Numeral(CHOOSE i \in DOMAIN PacketTable : PacketTable[i] = p)

SyntaxError == [error |-> "SyntaxError"]

\* JSON.parse skips the white space around the value
RECURSIVE Trim(_)
Trim(text) ==
    IF text = <<>> THEN <<>>
    ELSE IF text[1] = LF THEN Trim(Tail(text))
    ELSE IF text[Len(text)] = LF THEN Trim(SubSeq(text, 1, Len(text) - 1))
    ELSE text

\* a parser that takes an empty text for the first packet of the table
ParseLenient(text) ==
    LET body == Trim(text)
    IN  IF body = <<>> THEN PacketTable[1]
        ELSE IF /\ \A i \in DOMAIN body : body[i] \in Letters
                /\ Value(body) \in DOMAIN PacketTable
        THEN PacketTable[Value(body)]
        ELSE SyntaxError

\* JSON.parse(decoder.decode(packet)): the packet a text stands for, or a
\* SyntaxError for a text that is no packet's
Parse(text) ==
    LET body == Trim(text)
    IN  IF /\ body # <<>>
           /\ \A i \in DOMAIN body : body[i] \in Letters
           /\ Value(body) \in DOMAIN PacketTable
        THEN PacketTable[Value(body)]
        ELSE SyntaxError

\* the texts of the outbound packets, numbered like the inbound ones
OutboundTable == SetToSeq(OutboundPackets)

\* encoder.encode(JSON.stringify(packet) + "\n")
Encode(p) ==
    Append(Numeral(CHOOSE i \in DOMAIN OutboundTable : OutboundTable[i] = p), LF)

----------------------------------------------------------------------------
(* Sending *)

\* sendPacket up to its await: the packet is serialised and its writeAll is
\* started; `then` is the packet the caller's finally() sends afterwards
sendPacket(snd, p, then) == Append(snd, [packet |-> p, then |-> then])

\* sendPacket(SERVER_MESSAGE).finally(() => sendPacket(RESET))
SendCorrective(snd, message, target) ==
    sendPacket(snd, ServerMessage(message, target), Reset(target))

\* the queue without its i-th call
Without(snd, i) == [j \in 1..(Len(snd) - 1) |-> IF j < i THEN snd[j] ELSE snd[j + 1]]

\* a chain that sends the RESET only after a successful SERVER_MESSAGE
SettleThen(snd, i, ok) ==
    IF snd[i].then = NoPacket \/ ~ok THEN Without(snd, i)
    ELSE sendPacket(Without(snd, i), snd[i].then, NoPacket)

\* the promise of sends[i] settles (sendPacket never rejects: it catches the
\* write error): the call leaves the queue and the finally() callback, if there
\* is one, sends its packet, whether the write succeeded (ok) or not
Settle(snd, i, ok) ==
    IF snd[i].then = NoPacket THEN Without(snd, i)
    ELSE sendPacket(Without(snd, i), snd[i].then, NoPacket)

\* a disconnect that leaves the connection as it is
DisconnectWithoutClose(n) == n

\* disconnect(): close() is called, whether or not it throws
disconnect(n) == n + 1

closed == closeCalls > 0

----------------------------------------------------------------------------
(* handlePacket *)

\* a handler that files every update under the connection's own id
UpdateKeyOfConnection(connId, p) == connId

\* the registry key an UPDATE_CLIENT_DATA is filed under: the packet's clientId
UpdateKey(connId, p) == p.clientId

\* !this.data[clientId]
IsNew(reg, key) == ~Truthy(Lookup(reg, key))

\* a save gate that lets a save with the configured seed through
SaveLoadedOtherSeed(d) ==
    Field(d, "fileNum") # Num(NoSave) /\ Field(d, "seed") # Str(config.seed)

\* data.fileNum !== 255
SaveLoaded(d) == Field(d, "fileNum") # Num(NoSave)

\* data.fileNum !== 255 && data.seed !== config.seed
WrongSeed(d) == SaveLoaded(d) /\ Field(d, "seed") # Str(config.seed)

\* the UPDATE_CLIENT_DATA case; reading data.fileNum of a missing data throws
\* before anything is sent or stored
OnUpdateClientData(connId, reg, snd, p) ==
    LET key == UpdateKey(connId, p)
    IN  IF Nullish(p.data)
        THEN [data |-> reg, sends |-> snd, threw |-> TRUE]
        ELSE [data |-> Store(reg, key, p.data),
              sends |-> IF IsNew(reg, key)
                        THEN IF SaveLoaded(p.data)
                             THEN SendCorrective(snd, "Can't connect with save loaded, resetting", key)
                             ELSE snd
                        ELSE IF WrongSeed(p.data)
                             THEN SendCorrective(snd, "Wrong seed loaded, resetting", key)
                             ELSE snd,
              threw |-> FALSE]

\* a merge that stores every entry, known or not
MergeEntryAlways(reg, e) == Store(reg, e.f.clientId, Rest(e))

\* one entry of ALL_CLIENT_DATA.clients
MergeEntry(reg, e) ==
    IF Truthy(Lookup(reg, e.f.clientId)) THEN Store(reg, e.f.clientId, Rest(e)) ELSE reg

\* clients.forEach(...)
RECURSIVE MergeAll(_, _)
MergeAll(reg, clients) ==
    IF clients = <<>> THEN reg
    ELSE MergeAll(MergeEntry(reg, Head(clients)), Tail(clients))

\* a handler that empties the registry when a RESET arrives
handlePacketResetClears(connId, reg, snd, payload) ==
    LET p == Parse(payload)
    IN  IF p = SyntaxError THEN [data |-> reg, sends |-> snd, threw |-> TRUE]
        ELSE IF TypeOf(p) = "UPDATE_CLIENT_DATA" THEN OnUpdateClientData(connId, reg, snd, p)
        ELSE IF TypeOf(p) = "ALL_CLIENT_DATA"
             THEN [data |-> MergeAll(reg, p.clients), sends |-> snd, threw |-> FALSE]
        ELSE IF TypeOf(p) = "RESET" THEN [data |-> <<>>, sends |-> snd, threw |-> FALSE]
        ELSE [data |-> reg, sends |-> snd, threw |-> FALSE]

\* handlePacket(packet): the registry and the send queue afterwards, and
\* whether the body threw into its catch
handlePacket(connId, reg, snd, payload) ==
    LET p == Parse(payload)
    IN  IF p = SyntaxError THEN [data |-> reg, sends |-> snd, threw |-> TRUE]
        ELSE IF TypeOf(p) = "UPDATE_CLIENT_DATA" THEN OnUpdateClientData(connId, reg, snd, p)
        ELSE IF TypeOf(p) = "ALL_CLIENT_DATA"
             THEN [data |-> MergeAll(reg, p.clients), sends |-> snd, threw |-> FALSE]
        ELSE [data |-> reg, sends |-> snd, threw |-> FALSE]

----------------------------------------------------------------------------
(* waitForData *)

\* a concatenation that writes the second array over the first
ConcatOverwriting(a, b) == b

\* a new array holding the bytes of a, then those of b
concatUint8Arrays(a, b) == a \o b

\* a search that returns the index of the last line feed
findLastDelimiterIndex(bytes) ==
    IF \E i \in DOMAIN bytes : bytes[i] = LF
    THEN (CHOOSE i \in DOMAIN bytes : bytes[i] = LF /\ \A j \in (i + 1)..Len(bytes) : bytes[j] # LF) - 1
    ELSE -1

\* index (from 0) of the first line feed, -1 when there is none
findDelimiterIndex(bytes) ==
    IF \E i \in DOMAIN bytes : bytes[i] = LF
    THEN (CHOOSE i \in DOMAIN bytes : bytes[i] = LF /\ \A j \in 1..(i - 1) : bytes[j] # LF) - 1
    ELSE -1

\* bytes.subarray(from, to), indices from 0, `to` excluded
subarray(bytes, from, to) == SubSeq(bytes, from + 1, to)

\* a slice that stops before the delimiter
ExtractPayload(bytes, delimiterIndex) == subarray(bytes, 0, delimiterIndex)

\* the slice handed to handlePacket for a delimiter at delimiterIndex
ExtractPacket(bytes, delimiterIndex) == subarray(bytes, 0, delimiterIndex + 1)

\* a loop that an error thrown by a handler would end
LoopEndsOnThrow(r) == r.threw

\* whether handling a packet ends the inner loop: handlePacket catches
\* whatever its body throws, so nothing it returns does
LoopEnds(r) == FALSE

\* the inner loop: every complete packet of the buffer is handled in turn
RECURSIVE DispatchLoop(_, _)
DispatchLoop(connId, s) ==
    LET delimiterIndex == findDelimiterIndex(s.buf)
    IN  IF delimiterIndex = -1 THEN s
        ELSE LET packet == ExtractPacket(s.buf, delimiterIndex)
                 r == handlePacket(connId, s.data, s.sends, packet)
                 t == [buf |-> subarray(s.buf, delimiterIndex + 1, Len(s.buf)),
                       data |-> r.data,
                       sends |-> r.sends,
                       out |-> Append(s.out, packet),
                       caught |-> Append(s.caught, r.threw)]
             IN  IF LoopEnds(r) THEN t ELSE DispatchLoop(connId, t)

\* the progress of the calls of prog followed by n calls just started
Fresh(prog, n) == prog \o [j \in 1..n |-> 0]

\* the bytes of bytes after its last line feed
RECURSIVE Unterminated(_)
Unterminated(bytes) ==
    IF \A i \in DOMAIN bytes : bytes[i] # LF THEN bytes
    ELSE Unterminated(Tail(bytes))

\* what a step was and did
Did(event, caught, put) == [event |-> event, caught |-> caught, put |-> put]

\* a loop that reads only when no write is pending
ReadReadyAfterWrites == pc = "read" /\ ~closed /\ sends = <<>>

\* the loop is at its await of connection.read: handlePacket and the sendPacket
\* calls it makes are not awaited, so no pending write holds the read back
ReadReady == pc = "read" /\ ~closed

\* the buffer joined with the bytes of chunk and run through the inner loop
Received(chunk) ==
    DispatchLoop(id, [buf |-> concatUint8Arrays(buf, chunk), data |-> data,
                      sends |-> sends, out |-> <<>>, caught |-> <<>>])

\* a read may return the bytes of chunk within the bounds of the model
CanRead(chunk, limit) ==
    /\ ReadReady
    /\ hist.on => Len(hist.rx) + Len(chunk) <= MaxStream
    /\ Len(Received(chunk).sends) <= limit

\* a read returns the bytes of chunk; limit bounds the calls in flight
ReadUpTo(chunk, limit) ==
    /\ CanRead(chunk, limit)
    /\ LET s == Received(chunk)
       IN  /\ buf' = s.buf
           /\ data' = s.data
           /\ sends' = s.sends
           /\ progress' = Fresh(progress, Len(s.sends) - Len(sends))
           /\ last' = s.out
           /\ step' = Did("read", s.caught, <<>>)
           /\ hist' = IF hist.on
                      THEN [hist EXCEPT !.rx = @ \o chunk, !.out = @ \o s.out]
                      ELSE hist
    /\ UNCHANGED <<id, pc, closeCalls, wire>>

Read(chunk) == ReadUpTo(chunk, MaxInFlight)

\* a read returns end of stream: disconnect and leave the loop
ReadEnd ==
    /\ pc = "read"
    /\ ~closed
    /\ closeCalls' = disconnect(closeCalls)
    /\ pc' = "done"
    /\ last' = <<>>
    /\ step' = Did("eof", <<>>, <<>>)
    /\ UNCHANGED <<id, data, buf, sends, hist, progress, wire>>

\* a read fails: disconnect and leave the loop
ReadError ==
    /\ pc = "read"
    /\ closeCalls' = disconnect(closeCalls)
    /\ pc' = "done"
    /\ last' = <<>>
    /\ step' = Did("readError", <<>>, <<>>)
    /\ UNCHANGED <<id, data, buf, sends, hist, progress, wire>>

\* the read that was pending when the connection was closed fails
ReadAborted == closed /\ ReadError

\* the bytes of sends[i] the socket has not taken yet
Unwritten(i) ==
    LET packet == Encode(sends[i].packet)
    IN  SubSeq(packet, progress[i] + 1, Len(packet))

\* one write of writeAll's loop takes only the first n of the bytes left
WritePart(i, n) ==
    /\ i \in DOMAIN sends
    /\ ~closed
    /\ n \in 1..(Len(Unwritten(i)) - 1)
    /\ progress' = [progress EXCEPT ![i] = @ + n]
    /\ wire' = Unterminated(wire \o SubSeq(Unwritten(i), 1, n))
    /\ last' = <<>>
    /\ step' = Did("partial", <<>>, SubSeq(Unwritten(i), 1, n))
    /\ UNCHANGED <<id, data, buf, pc, sends, closeCalls, hist>>

\* the writeAll of sends[i] completes: the socket takes the bytes left
WriteDone(i) ==
    /\ i \in DOMAIN sends
    /\ ~closed
    /\ sends' = Settle(sends, i, TRUE)
    /\ progress' = Fresh(Without(progress, i), Len(sends') - Len(sends) + 1)
    /\ wire' = Unterminated(wire \o Unwritten(i))
    /\ last' = <<>>
    /\ step' = Did("written", <<>>, Unwritten(i))
    /\ UNCHANGED <<id, data, buf, pc, closeCalls, hist>>

\* the writeAll of sends[i] fails: sendPacket catches the error and disconnects
WriteError(i) ==
    /\ i \in DOMAIN sends
    /\ closeCalls' = disconnect(closeCalls)
    /\ sends' = Settle(sends, i, FALSE)
    /\ progress' = Fresh(Without(progress, i), Len(sends') - Len(sends) + 1)
    /\ last' = <<>>
    /\ step' = Did("writeError", <<>>, <<>>)
    /\ UNCHANGED <<id, data, buf, pc, hist, wire>>

\* the operator types "reset": the room's RESET is sent, whatever the state
\* of the connection; limit bounds the calls in flight
Command(limit) ==
    /\ Len(sends) < limit
    /\ closeCalls < MaxCloseCalls
    /\ sends' = sendPacket(sends, RoomReset, NoPacket)
    /\ progress' = Fresh(progress, 1)
    /\ last' = <<>>
    /\ step' = Did("command", <<>>, <<>>)
    /\ UNCHANGED <<id, data, buf, pc, closeCalls, hist, wire>>

----------------------------------------------------------------------------
(* Specifications *)

\* after new Client(conn) and the first sendPacket: the registry is empty, the
\* read loop awaits its first read and the host's own update is being written
InitWith(recording) ==
    /\ id \in ConnIds
    /\ data = <<>>
    /\ buf = <<>>
    /\ pc = "read"
    /\ sends = sendPacket(<<>>, HostUpdate, NoPacket)
    /\ closeCalls = 0
    /\ last = <<>>
    /\ hist = [on |-> recording, rx |-> <<>>, out |-> <<>>]
    /\ progress = <<0>>
    /\ wire = <<>>
    /\ step = Did("start", <<>>, <<>>)

\* reads that return exactly one whole packet and its line feed
Frames == { Append(Stringify(p), LF) : p \in InboundPackets }

RECURSIVE SeqsUpTo(_, _)
SeqsUpTo(S, n) ==
    IF n = 0 THEN {<<>>}
    ELSE LET shorter == SeqsUpTo(S, n - 1)
         IN  shorter \cup { Append(q, x) : q \in shorter, x \in S }

\* reads that return any bytes, up to MaxRead of them
Chunks == SeqsUpTo(Bytes, MaxRead) \ {<<>>}

Init == InitWith(FALSE)

Next ==
    \/ \E chunk \in Frames : Read(chunk)
    \/ ReadEnd
    \/ ReadError
    \/ \E i \in 1..MaxInFlight : WriteDone(i)
    \/ \E i \in 1..MaxInFlight : WriteError(i)
    \/ Command(MaxInFlight)

Spec == Init /\ [][Next]_vars

\* the same session fed an arbitrary byte stream, split arbitrarily into reads,
\* with the stream and the dispatched payloads recorded
InitFrame == InitWith(TRUE)

NextFrame ==
    \/ \E chunk \in Chunks : Read(chunk)
    \/ ReadEnd
    \/ ReadError
    \/ \E i \in 1..MaxInFlight : WriteDone(i)
    \/ \E i \in 1..MaxInFlight : WriteError(i)
    \/ Command(MaxInFlight)

SpecFrame == InitFrame /\ [][NextFrame]_vars

\* the same session with a pending read that fails once the connection is
\* closed: close() cancels the read, whose promise then rejects
SpecFair == Init /\ [][Next]_vars /\ WF_vars(ReadAborted)

\* reads that return one whole packet of the short ones
ShortFrames == { Append(Stringify(ShortPackets[i]), LF) : i \in DOMAIN ShortPackets }

\* the session with several sends in flight, each write followed byte by byte
NextSend ==
    \/ \E chunk \in ShortFrames : ReadUpTo(chunk, MaxConcurrent)
    \/ ReadEnd
    \/ ReadError
    \/ \E i \in 1..MaxConcurrent, n \in 1..3 : WritePart(i, n)
    \/ \E i \in 1..MaxConcurrent : WriteDone(i)
    \/ \E i \in 1..MaxConcurrent : WriteError(i)
    \/ Command(MaxConcurrent)

SpecSend == Init /\ [][NextSend]_vars

----------------------------------------------------------------------------
(* What a step handled *)

\* the step gave exactly one payload to handlePacket
HandledOne == Len(last') = 1

\* the packet of that payload
HandledPacket == Parse(last'[1])

\* the step handled one UPDATE_CLIENT_DATA that carries a data value
HandledUpdate ==
    /\ HandledOne
    /\ HandledPacket # SyntaxError
    /\ TypeOf(HandledPacket) = "UPDATE_CLIENT_DATA"
    /\ HandledPacket.data \notin {Undefined, Null}

\* the step handled one ALL_CLIENT_DATA
HandledAll ==
    /\ HandledOne
    /\ HandledPacket # SyntaxError
    /\ TypeOf(HandledPacket) = "ALL_CLIENT_DATA"

\* the data value has a fileNum field equal to 255
FileNumIs255(d) == d.t = "object" /\ "fileNum" \in DOMAIN d.f /\ d.f["fileNum"] = Num(255)

\* the data value has a seed field equal to the configured seed
SeedIsConfigured(d) == d.t = "object" /\ "seed" \in DOMAIN d.f /\ d.f["seed"] = Str(config.seed)

\* the send queue after a corrective pair for target has been started on snd:
\* the SERVER_MESSAGE is being written and the RESET follows it
WithPair(snd, message, target) ==
    snd \o << [packet |-> [type |-> "SERVER_MESSAGE", message |-> message,
                           targetClientId |-> target],
               then |-> [type |-> "RESET", targetClientId |-> target]] >>

\* the packets being written
InFlight == { sends[i].packet : i \in DOMAIN sends }

----------------------------------------------------------------------------
(* C1 *)

\* C1: an UPDATE_CLIENT_DATA for an id that is no key of the registry starts the
\* pair "Can't connect with save loaded, resetting" / RESET, both targeted at the
\* id, exactly when data.fileNum is not 255, whatever the seed, and starts
\* nothing when it is 255; the registry holds the data under the id afterwards.
C1_NewParticipantGate ==
    [][ (HandledUpdate /\ HandledPacket.clientId \notin DOMAIN data) =>
          LET p == HandledPacket
          IN  /\ sends' = IF FileNumIs255(p.data) THEN sends
                           ELSE WithPair(sends, "Can't connect with save loaded, resetting",
                                         p.clientId)
              /\ p.clientId \in DOMAIN data'
              /\ data'[p.clientId] = p.data ]_vars

\* a first update of 7 with a save loaded and the configured seed has been
\* handled: its message is being written
C1_Witness ==
    /\ Len(last) = 1
    /\ Parse(last[1]) = UpdateClientData(7, Obj([fileNum |-> Num(1), seed |-> Str("S")]))
    /\ DOMAIN data = {7}
    /\ ServerMessage("Can't connect with save loaded, resetting", 7) \in InFlight

----------------------------------------------------------------------------
(* C2 *)

\* C2: an UPDATE_CLIENT_DATA for an id that is a key of the registry starts the
\* pair "Wrong seed loaded, resetting" / RESET exactly when data.fileNum is not
\* 255 and data.seed is not the configured seed, and starts nothing otherwise.
C2_ExistingParticipantSeedCheck ==
    [][ (HandledUpdate /\ HandledPacket.clientId \in DOMAIN data) =>
          LET p == HandledPacket
          IN  sends' = IF ~FileNumIs255(p.data) /\ ~SeedIsConfigured(p.data)
                       THEN WithPair(sends, "Wrong seed loaded, resetting", p.clientId)
                       ELSE sends ]_vars

----------------------------------------------------------------------------
(* C3 *)

\* the SERVER_MESSAGE writes to target in a queue that have a RESET chained
MessagesTo(snd, target) ==
    Cardinality({ i \in DOMAIN snd : /\ snd[i].packet.type = "SERVER_MESSAGE"
                                     /\ "targetClientId" \in DOMAIN snd[i].packet
                                     /\ snd[i].packet.targetClientId = target
                                     /\ snd[i].then # NoPacket })

\* the RESET writes to target in a queue
ResetsTo(snd, target) ==
    Cardinality({ i \in DOMAIN snd : /\ snd[i].packet.type = "RESET"
                                     /\ "targetClientId" \in DOMAIN snd[i].packet
                                     /\ snd[i].packet.targetClientId = target })

\* C3: no RESET write starts in the step that starts the SERVER_MESSAGE write, and
\* a step in which a SERVER_MESSAGE send finishes, with success or with a write
\* error, starts exactly one RESET write to the same target; no other step
\* starts a RESET write.
C3_ResetOnceAfterMessage ==
    [][ \A target \in ClientIds :
          /\ ResetsTo(sends', target) <= ResetsTo(sends, target) + 1
          /\ (MessagesTo(sends', target) = MessagesTo(sends, target) - 1)
                <=> (ResetsTo(sends', target) = ResetsTo(sends, target) + 1)
          /\ MessagesTo(sends', target) > MessagesTo(sends, target)
                => ResetsTo(sends', target) = ResetsTo(sends, target) ]_vars

\* the SERVER_MESSAGE write to 7 failed, which closed the connection, and the
\* RESET to 7 is being written all the same
C3_Witness ==
    /\ closeCalls = 1
    /\ pc = "read"
    /\ sends = << [packet |-> Reset(7), then |-> NoPacket] >>

----------------------------------------------------------------------------
(* C4 *)

\* C4: after an UPDATE_CLIENT_DATA for id p with data d the registry holds d
\* under p, the whole value and nothing of the previous snapshot, and every
\* other key as before; a step that handles no payload (a write that completes
\* or fails, a disconnect) leaves the registry as it is.
C4_UpdateReplacesSnapshot ==
    [][ /\ HandledUpdate =>
              LET p == HandledPacket
              IN  /\ DOMAIN data' = DOMAIN data \cup {p.clientId}
                  /\ data'[p.clientId] = p.data
                  /\ \A k \in DOMAIN data \ {p.clientId} : data'[k] = data[k]
        /\ last' = <<>> => data' = data ]_vars

\* the snapshot of 7 has been replaced by one with fewer fields, while a
\* corrective message for it is being written
C4_Witness ==
    /\ Len(last) = 1
    /\ Parse(last[1]) = UpdateClientData(7, Obj([seed |-> Str("T")]))
    /\ 7 \in DOMAIN data
    /\ data[7] = Obj([seed |-> Str("T")])
    /\ ServerMessage("Wrong seed loaded, resetting", 7) \in InFlight

----------------------------------------------------------------------------
(* C5 *)

\* the fields of an entry without its clientId
WithoutClientId(e) == [t |-> "object", f |-> [n \in DOMAIN e.f \ {"clientId"} |-> e.f[n]]]

\* the last entry of clients that names key
LastEntryFor(clients, key) ==
    LET at == { i \in DOMAIN clients : clients[i].f["clientId"] = key }
    IN  clients[CHOOSE i \in at : \A j \in at : j <= i]

\* C5: an ALL_CLIENT_DATA leaves the key set of the registry as it is; a key that
\* an entry names holds that entry's fields without clientId afterwards (those of
\* the last such entry), and every other key holds what it held.
C5_AllClientDataKnownKeysOnly ==
    [][ HandledAll =>
          LET clients == HandledPacket.clients
          IN  /\ DOMAIN data' = DOMAIN data
              /\ \A k \in DOMAIN data :
                    IF \E i \in DOMAIN clients : clients[i].f["clientId"] = k
                    THEN data'[k] = WithoutClientId(LastEntryFor(clients, k))
                    ELSE data'[k] = data[k] ]_vars

----------------------------------------------------------------------------
(* C6 *)

\* the participant ids of the UPDATE_CLIENT_DATA payloads among payloads
UpdateIds(payloads) ==
    { Parse(payloads[i]).clientId :
        i \in { j \in DOMAIN payloads : /\ Parse(payloads[j]) # SyntaxError
                                         /\ TypeOf(Parse(payloads[j])) = "UPDATE_CLIENT_DATA" } }

\* C6: the registry is empty at the start of the session, and a step adds a key
\* only if it handles an UPDATE_CLIENT_DATA for that participant id: every key
\* of the registry is the id of an UPDATE_CLIENT_DATA handled earlier.
C6_KeysComeFromUpdates ==
    /\ data = <<>>
    /\ [][ DOMAIN data' \subseteq DOMAIN data \cup UpdateIds(last') ]_vars

\* an ALL_CLIENT_DATA with entries for 7 and for 9 has been handled, and 7 is
\* still the only key
C6_Witness ==
    /\ Len(last) = 1
    /\ Parse(last[1]) # SyntaxError
    /\ TypeOf(Parse(last[1])) = "ALL_CLIENT_DATA"
    /\ { Parse(last[1]).clients[i].f["clientId"] : i \in DOMAIN Parse(last[1]).clients } = {7, 9}
    /\ DOMAIN data = {7}

----------------------------------------------------------------------------
(* C7 *)

\* the packets whose send the step started
Started == { sends'[i].packet : i \in (Len(sends) + 1)..Len(sends') }

\* C7: an UPDATE_CLIENT_DATA for an id that is a key of the registry, whatever is
\* stored under it, never takes the new-participant branch: it never starts the
\* message "Can't connect with save loaded, resetting".
C7_ClassifiedByKeyPresence ==
    [][ (HandledUpdate /\ HandledPacket.clientId \in DOMAIN data) =>
          \A m \in Started :
             ~(m.type = "SERVER_MESSAGE" /\ m.message = "Can't connect with save loaded, resetting")
      ]_vars

----------------------------------------------------------------------------
(* C8 *)

\* C8: an UPDATE_CLIENT_DATA whose data is a map without a fileNum field starts
\* no send, for a new and for an existing participant, and its data is stored.
C8_MissingFileNumIsNoSave ==
    [][ ( /\ HandledUpdate
          /\ HandledPacket.data.t = "object"
          /\ "fileNum" \notin DOMAIN HandledPacket.data.f ) =>
          /\ sends' = sends
          /\ HandledPacket.clientId \in DOMAIN data'
          /\ data'[HandledPacket.clientId] = HandledPacket.data ]_vars

----------------------------------------------------------------------------
(* C9 *)

----------------------------------------------------------------------------
(* C10 *)

\* the complete lines of a byte stream, in order, each with its line feed
\* (withLF) or without it; cur is the line being read
RECURSIVE Lines(_, _, _)
Lines(bytes, cur, withLF) ==
    IF bytes = <<>> THEN <<>>
    ELSE IF Head(bytes) = 10
         THEN <<IF withLF THEN Append(cur, 10) ELSE cur>> \o Lines(Tail(bytes), <<>>, withLF)
         ELSE Lines(Tail(bytes), Append(cur, Head(bytes)), withLF)

\* C10 as stated: the payloads dispatched so far are the payloads P1..Pn of the
\* stream received so far, the bytes between the line feeds, in order, however
\* the stream was split into reads.
C10_DispatchedArePayloads ==
    hist.on => hist.out = Lines(hist.rx, <<>>, FALSE)

\* C10 as amended: the payloads dispatched so far are, in order and one for one,
\* the payloads P1..Pn of the stream received so far, each followed by its line
\* feed, however the stream was split into reads; each decodes as Pi does.
C10_DispatchedAreLines ==
    hist.on =>
      /\ hist.out = Lines(hist.rx, <<>>, TRUE)
      /\ Len(hist.out) = Cardinality({ i \in DOMAIN hist.rx : hist.rx[i] = 10 })
      /\ \A i \in DOMAIN hist.out : Parse(hist.out[i]) = Parse(Lines(hist.rx, <<>>, FALSE)[i])

\* the stream a LF b LF has been received in two reads that split it after the
\* a, and the second read dispatched both payloads
C10_Witness ==
    /\ hist.on
    /\ hist.rx = <<97, 10, 98, 10>>
    /\ last = << <<97, 10>>, <<98, 10>> >>
    /\ hist.out = last

----------------------------------------------------------------------------
(* C11 *)

\* the bytes the read of this step returned
Chunk == SubSeq(hist.rx', Len(hist.rx) + 1, Len(hist.rx'))

\* how many line feeds bytes holds
Feeds(bytes) == Cardinality({ i \in DOMAIN bytes : bytes[i] = 10 })

\* the first bytes of bytes, up to its first line feed, with or without it
UpToFeed(bytes, withLF) == Lines(bytes, <<>>, withLF)[1]

\* the buffer holds no line feed and is the end of the stream received so far,
\* from after its last line feed
RetainedIsTail ==
    /\ \A i \in DOMAIN buf : buf[i] # 10
    /\ \E k \in 0..Len(hist.rx) :
          /\ k = 0 \/ hist.rx[k] = 10
          /\ \A j \in (k + 1)..Len(hist.rx) : hist.rx[j] # 10
          /\ buf = SubSeq(hist.rx, k + 1, Len(hist.rx))

\* a read that returns line feeds dispatches one payload for each, the first
\* being the retained bytes and the new bytes up to the first line feed
FeedCompletes(withLF) ==
    (hist.on /\ hist.rx' # hist.rx /\ Feeds(Chunk) > 0) =>
        /\ Len(last') = Feeds(Chunk)
        /\ last'[1] = buf \o UpToFeed(Chunk, withLF)

\* C11 as stated: bytes with no line feed after them are never dispatched: after
\* each read the buffer holds no line feed and is exactly the bytes received
\* after the last one; a later read that supplies the line feed dispatches one
\* payload, the retained bytes and the new bytes before the line feed.
C11_CompletedWithoutFeed ==
    /\ [](hist.on => RetainedIsTail)
    /\ [][FeedCompletes(FALSE)]_vars

\* C11 as amended: the same, and the payload dispatched is the retained bytes
\* and the new bytes up to and including the line feed.
C11_CompletedThroughFeed ==
    /\ [](hist.on => RetainedIsTail)
    /\ [][FeedCompletes(TRUE)]_vars

\* a payload longer than a read can return has been dispatched: its first bytes
\* were retained until a later read brought the line feed
C11_Witness ==
    /\ hist.on
    /\ last = << <<97, 98, 97, 10>> >>
    /\ buf = <<>>

----------------------------------------------------------------------------
(* C12 *)

\* the payload is the text of no packet: it is not well-formed JSON
Malformed(payload) ==
    LET body == Trim(payload)
    IN  \/ body = <<>>
        \/ \E i \in DOMAIN body : body[i] \notin Letters
        \/ Value(body) \notin DOMAIN PacketTable

\* the payload is the text of a JSON object that has no type field
Typeless(payload) == Trim(payload) = Stringify(NoType)

\* handling the one payload of the step left the registry, the send queue and
\* the session as they were
Dropped ==
    /\ data' = data
    /\ sends' = sends
    /\ pc' = pc
    /\ closeCalls' = closeCalls

\* C12 as stated: a payload that is not well-formed JSON, or is JSON without a
\* type field, ends in a decode error and leaves the registry and the session
\* as they were, with no packet sent.
C12_BothRaiseDecodeError ==
    [][ (HandledOne /\ (Malformed(last'[1]) \/ Typeless(last'[1]))) =>
            /\ Dropped
            /\ step'.caught = <<TRUE>> ]_vars

\* C12 as amended: both payloads leave the registry and the session as they
\* were, with no packet sent; only the one that is not well-formed JSON ends
\* in an error, the object without a type field is handled without one.
C12_DroppedErrorOnlyForMalformed ==
    [][ (HandledOne /\ (Malformed(last'[1]) \/ Typeless(last'[1]))) =>
            /\ Dropped
            /\ step'.caught = <<Malformed(last'[1])>> ]_vars

\* with a participant registered, an object without a type field has been
\* handled and no error was caught
C12_Witness ==
    /\ Len(last) = 1
    /\ Typeless(last[1])
    /\ step.caught = <<FALSE>>
    /\ data # <<>>

----------------------------------------------------------------------------
(* C13 *)

\* some payload of the step into this state ended in handlePacket's catch
SomeCaught == \E i \in DOMAIN step.caught : step.caught[i]

\* the last payload the step handled, as a packet
LastHandled == Parse(last'[Len(last')])

\* the last payload the step handled is a well-formed UPDATE_CLIENT_DATA that
\* carries a data value, and a payload before it ended in the catch
UpdateAfterCaught ==
    /\ Len(last') > 1
    /\ \E i \in 1..(Len(last') - 1) : step'.caught[i]
    /\ LastHandled # SyntaxError
    /\ TypeOf(LastHandled) = "UPDATE_CLIENT_DATA"
    /\ LastHandled.data \notin {Undefined, Null}

\* C13: a payload that does not decode, or whose handling throws, does not end
\* the read loop and does not close the connection: the loop still awaits a read
\* and the connection is open after it, the read that brought it dispatches a
\* payload for every line feed it completes, and a well-formed update that
\* follows the failed payload in the same read is stored in the registry.
C13_FailedPayloadIsContained ==
    /\ [](SomeCaught => (pc = "read" /\ closeCalls = 0))
    /\ [][ (hist.on /\ hist.rx' # hist.rx) =>
              /\ Len(last') = Feeds(Chunk)
              /\ Len(step'.caught) = Len(last')
              /\ UpdateAfterCaught =>
                    /\ LastHandled.clientId \in DOMAIN data'
                    /\ data'[LastHandled.clientId] = LastHandled.data ]_vars

\* one read completed two payloads: handling the first, an update without data,
\* threw, and the second, an update of participant 7, was stored
C13_Witness ==
    /\ hist.on
    /\ last = << <<98, 10>>, <<97, 10>> >>
    /\ step.caught = <<TRUE, FALSE>>
    /\ 7 \in DOMAIN data
    /\ data[7] = Obj([fileNum |-> Num(1), seed |-> Str("T")])
    /\ pc = "read"
    /\ closeCalls = 0

----------------------------------------------------------------------------
(* C14 *)

\* the step made a sendPacket call, whose writeAll it started: the send queue
\* holds a call more than the step's settled write leaves
StartsWrite ==
    Len(sends') > Len(sends) - (IF step'.event \in {"written", "writeError"} THEN 1 ELSE 0)

\* C14: once close() has been called the connection stays closed, and a step
\* that ends with the connection closed returned no read and started no write,
\* be it the RESET behind a failed SERVER_MESSAGE or the operator's reset.
C14_ClosedIsAbsorbing ==
    [][ /\ closed => closed'
        /\ closed' => (step'.event # "read" /\ ~StartsWrite) ]_vars

----------------------------------------------------------------------------
(* C15 *)

\* C15: close() is called at most once in any execution, whatever read errors,
\* write errors and ends of stream occur and in whatever order.
C15_CloseCalledAtMostOnce == closeCalls <= 1

----------------------------------------------------------------------------
(* C16 *)

\* the step into this state was a transport failure
TransportFailed == step.event \in {"eof", "readError", "writeError"}

\* a failed write is not retried: its call leaves the send queue, and the only
\* call the step may add is the one chained behind it, for another packet
NoRetry ==
    step'.event = "writeError" =>
        \E i \in DOMAIN sends :
            LET rest == [j \in 1..(Len(sends) - 1) |-> IF j < i THEN sends[j] ELSE sends[j + 1]]
            IN  \/ sends' = rest
                \/ /\ sends[i].then \notin {NoPacket, sends[i].packet}
                   /\ sends' = Append(rest, [packet |-> sends[i].then, then |-> NoPacket])

\* C16: every transport failure is fatal: after an end of stream, a read error or
\* a write error close() has been called; a failed read leaves the read loop at
\* once and after a failed write the loop ends eventually; the connection is
\* never reopened, the loop never resumed, and a failed write never retried.
C16_TransportFailureIsFatal ==
    /\ [](TransportFailed => closed)
    /\ [](step.event \in {"eof", "readError"} => pc = "done")
    /\ closed ~> (pc = "done")
    /\ [][ /\ closed => closed'
           /\ pc = "done" => (pc' = "done" /\ step'.event # "read")
           /\ NoRetry ]_vars

\* a write failed while the read loop was waiting, and the loop has ended with
\* the failure of its pending read
C16_Witness ==
    /\ step.event = "readError"
    /\ closeCalls = 2
    /\ pc = "done"

----------------------------------------------------------------------------
(* C17 *)

\* C17 as stated: while a write is pending the session does nothing else: no
\* read returns, no payload is dispatched, and no write is started other than
\* the one chained behind the only pending write when that write settles.
C17_PendingWriteBlocksSession ==
    [][ sends # <<>> =>
          /\ step'.event # "read"
          /\ last' = <<>>
          /\ StartsWrite => (step'.event \in {"written", "writeError"} /\ Len(sends) = 1) ]_vars

\* C17 as amended: a pending write holds nothing back: as long as the loop
\* awaits a read on an open connection a read can return and be handled,
\* however many writes are pending.
C17_PendingWriteBlocksNothing ==
    (pc = "read" /\ closeCalls = 0) =>
        \E chunk \in ShortFrames : CanRead(chunk, MaxConcurrent)

\* while the initial write was still pending a read returned, its payload was
\* handled and stored, and a second write was started
C17_Witness ==
    /\ step.event = "read"
    /\ Len(last) = 1
    /\ data # <<>>
    /\ Len(sends) = 2
    /\ sends[1].packet = HostUpdate
    /\ sends[2].packet.type = "SERVER_MESSAGE"
    /\ progress = <<0, 0>>

----------------------------------------------------------------------------
(* C18 *)

\* the types of the packets the step handled
HandledTypes ==
    { TypeOf(Parse(last'[i])) : i \in { j \in DOMAIN last' : Parse(last'[j]) # SyntaxError } }

\* C18: the registry changes only in a step that handles an inbound
\* UPDATE_CLIENT_DATA or ALL_CLIENT_DATA: handling a packet of any other type,
\* a write completing or failing (the initial UPDATE_CLIENT_DATA among them),
\* starting a send from the command loop, and a disconnect leave it as it was.
C18_RegistryChangesOnlyOnData ==
    [][ /\ data' # data =>
              /\ step'.event = "read"
              /\ HandledTypes \cap {"UPDATE_CLIENT_DATA", "ALL_CLIENT_DATA"} # {}
        /\ (HandledOne /\ HandledTypes \subseteq OtherTypes) => data' = data
        /\ step'.event \in {"written", "writeError", "command", "eof", "readError"}
              => data' = data ]_vars

\* with participant 7 registered, the initial UPDATE_CLIENT_DATA written and a
\* corrective pair in flight, an inbound RESET has been handled
C18_Witness ==
    /\ Len(last) = 1
    /\ Parse(last[1]) = Plain("RESET")
    /\ DOMAIN data = {7}
    /\ Len(sends) = 1
    /\ sends[1].packet.type = "SERVER_MESSAGE"

----------------------------------------------------------------------------
(* C19 *)

\* the payloads one after the other, each followed by the bytes of sep
RECURSIVE Joined(_, _)
Joined(payloads, sep) ==
    IF payloads = <<>> THEN <<>>
    ELSE Head(payloads) \o sep \o Joined(Tail(payloads), sep)

\* C19 as stated: each payload handed to handlePacket is the buffer from its
\* start up to the line feed, without it, and the buffer goes on after the
\* line feed: no dispatched payload holds a line feed.
C19_SliceExcludesDelimiter ==
    [][ (hist.on /\ hist.rx' # hist.rx) =>
          /\ \A i \in DOMAIN last' : \A j \in DOMAIN last'[i] : last'[i][j] # 10
          /\ Joined(last', <<10>>) \o buf' = buf \o Chunk ]_vars

\* C19 as amended: each payload handed to handlePacket is the buffer from its
\* start up to and including the first line feed, which is its last byte and
\* its only line feed, and the buffer goes on after that line feed.
C19_SliceEndsWithDelimiter ==
    [][ (hist.on /\ hist.rx' # hist.rx) =>
          /\ \A i \in DOMAIN last' :
                /\ last'[i] # <<>>
                /\ \A j \in DOMAIN last'[i] : (last'[i][j] = 10) <=> (j = Len(last'[i]))
          /\ Joined(last', <<>>) \o buf' = buf \o Chunk ]_vars

\* a read returned a, a line feed and b: the slice handed over is a with its
\* line feed and the buffer holds b
C19_Witness ==
    /\ hist.on
    /\ hist.rx = <<97, 10, 98>>
    /\ last = << <<97, 10>> >>
    /\ buf = <<98>>

----------------------------------------------------------------------------
(* C20 *)

\* C20: the bytes of each outbound packet reach the socket contiguously and end
\* with its line feed: whenever a write puts bytes of a packet on the socket,
\* the bytes there since the last line feed are exactly the bytes of that
\* packet written before, however many sends are in flight and however the
\* writes are split.
C20_FramesAreContiguous ==
    [][ step'.event \in {"written", "partial"} =>
          \E i \in DOMAIN sends :
              LET packet == Encode(sends[i].packet)
              IN  /\ step'.put = SubSeq(packet, progress[i] + 1, progress[i] + Len(step'.put))
                  /\ wire = SubSeq(packet, 1, progress[i]) ]_vars

====
